---- MODULE Spec2Model ----
(***************************************************************************)
(* The agent / workflow orchestration core of src/src/009_agents.ts:       *)
(* createAction, the Flow DSL (first, andThen, doIf, noOp),                *)
(* createWorkflow, createAgent and the AgentStateService store.            *)
(*                                                                         *)
(* Effects are run as a stack machine: every Effect that is being run is   *)
(* a frame of `stack`, a frame that finishes is popped and leaves its Exit *)
(* (Success, Failure or Die) in `exit`, where the frame below reads it.    *)
(*                                                                         *)
(* Spec is the program as written, with Math.random's capability           *)
(* selection; SpecProvider replaces that selection by an injected decision *)
(* provider that may answer with any index.  Calls are made from outside   *)
(* on actions, flow builders, workflows and agents; `log` records what a   *)
(* call did and `prev` keeps the call before it for comparison.            *)
(* SpecStore is the store alone, as a caller uses it: addMessage,          *)
(* getHistory, updateState and getState on one AgentStateService.          *)
(* SpecFair is agents executed under a runtime that keeps running the call *)
(* it has started; SpecShared is two agent runs on one store, interleaved  *)
(* between their steps.                                                    *)
(***************************************************************************)
EXTENDS Integers, Sequences, FiniteSets, TLC

\* ===== Bounds =====

\* number of top-level calls made on one provided ServiceLayer
MaxRuns == 2
\* largest maxLoops option passed to a top-level Agent.execute
MaxLoopsOption == 2
\* a further top-level call starts only while the shared history is this short
MaxCarry == 3
\* updateState calls made from outside
MaxWrites == 2
\* values obtained from getHistory and getState that callers hold
MaxObtained == 2
\* deepest nesting of Agent.execute calls that is followed
MaxDepth == 4
\* most times the runtime goes from one of two concurrent runs to the other
MaxSwitches == 2

\* ===== Core types =====

\* ActionReturn, 009_agents.ts:6-9
ActionReturn(done, result) == [done |-> done, result |-> result]

\* FlowIntermediateResult, 009_agents.ts:47-51
FlowIntermediateResult(done, result, nextState) ==
    [done |-> done, result |-> result, nextState |-> nextState]

\* Exit of an Effect: a success value, a typed error, or a defect
Success(value) == [tag |-> "Success", value |-> value]
Failure(error) == [tag |-> "Failure", error |-> error]
Die(defect) == [tag |-> "Die", defect |-> defect]
NoExit == [tag |-> "None"]

\* ===== Arguments and parameter schemas =====

Fields == {"query", "userId", "response"}

StringValue(s) == [type |-> "string", v |-> s]
NumberValue == [type |-> "number", v |-> "7"]
Undefined == [type |-> "undefined", v |-> ""]

\* the argument objects handed to handle: `{}` and objects with a `response` key
EmptyArgs == [f \in Fields |-> Undefined]
ArgsUniverse ==
    { [EmptyArgs EXCEPT !["response"] = x] :
        x \in {Undefined, StringValue("hi"), NumberValue} }
    \cup { [EmptyArgs EXCEPT !["query"] = StringValue("err"), !["response"] = StringValue("hi")] }

\* Schema.decodeUnknown(Schema.Struct({f: Schema.String, ...}))(args):
\* every field of the struct must be present and a string; keys the struct
\* does not name are dropped from the decoded value
\* a slip: a field only has to be present
DecodeOkLax(Params, args) == \A f \in Params : args[f].type # "undefined"
DecodeOk(Params, args) == \A f \in Params : args[f].type = "string"
DecodeValue(Params, args) == [f \in Params |-> args[f].v]

\* ===== Actions (createAction configs) =====

ActionNames ==
    { "SearchLogs", "GetPayments", "Respond", "AskCancellationReason",
      "GetSubscriptionDetails", "OfferOneMonthFree", "AddOneMonthFree",
      "CancelSubscription", "EmailUserAboutCancellation", "ChargeStub" }

\* Params of each action
ActionParams(a) ==
    CASE a = "SearchLogs" -> {"query"}
      [] a = "GetPayments" -> {"userId"}
      [] a = "Respond" -> {"response"}
      [] OTHER -> {}

\* config.execute of each action, applied to the decoded request
ActionExecute(a, request) ==
    CASE a = "SearchLogs" ->
            Success(ActionReturn(FALSE, "Found logs for query: " \o request["query"]))
      [] a = "GetPayments" ->
            Success(ActionReturn(FALSE, "Payment info for user " \o request["userId"]))
      [] a = "Respond" ->
            Success(ActionReturn(TRUE, request["response"]))
      [] a = "AskCancellationReason" ->
            Success(ActionReturn(FALSE, "User says: too expensive"))
      [] a = "GetSubscriptionDetails" ->
            Success(ActionReturn(FALSE, "Subscription details"))
      [] a = "OfferOneMonthFree" ->
            Success(ActionReturn(FALSE, "How about one month free?"))
      [] a = "AddOneMonthFree" ->
            Success(ActionReturn(FALSE, "Added free month for user user123"))
      [] a = "CancelSubscription" ->
            Success(ActionReturn(FALSE, "Subscription cancelled for user user123"))
      [] a = "EmailUserAboutCancellation" ->
            Success(ActionReturn(TRUE, "Cancellation confirmation email sent"))
      [] a = "ChargeStub" ->
            Failure("PaymentError")

\* ===== Flow DSL: flow builders =====

\* A flow builder (FlowWrap) is first(step) piped through steps; a step, and
\* a branch arm of doIf, is a function from flow builder to flow builder,
\* written as the sequence of steps it pipes its argument through.
andThen(step) == [op |-> "andThen", step |-> step, onTrue |-> <<>>, onFalse |-> <<>>]
doIf(onTrue, onFalse) == [op |-> "doIf", step |-> "", onTrue |-> onTrue, onFalse |-> onFalse]
\* a slip: the arm that should do nothing pipes a step
noOpAppends == << [op |-> "andThen", step |-> "CancelSubscription",
                   onTrue |-> <<>>, onFalse |-> <<>>] >>
noOp == <<>>
first(step) == [first |-> step, steps |-> <<>>]
\* (flow) => flow.pipe(...steps), a function from flow builder to flow builder
\* made of others (lines 600-606, 611-615), used as a step
pipe(steps) == [op |-> "pipe", step |-> "", onTrue |-> steps, onFalse |-> <<>>]
\* a slip: the steps are composed right to left
pipeStepsComposed(p) ==
    [i \in 1..Len(p.onTrue) |-> p.onTrue[Len(p.onTrue) + 1 - i]]
\* the steps flow.pipe(...) applies to its flow, first to last
pipeSteps(p) == p.onTrue
Pipe(flow, steps) == [first |-> flow.first, steps |-> flow.steps \o steps]

\* doIf's choice of the arm that continues the composition (lines 210-212)
doIfArm(d, conditionMet) == IF conditionMet THEN d.onTrue ELSE d.onFalse

\* cancelSubscriptionFlow, 009_agents.ts:594-618
cancelSubscriptionFlow ==
    Pipe(first("AskCancellationReason"),
         << andThen("GetSubscriptionDetails"),
            doIf(<< andThen("OfferOneMonthFree"),
                    doIf(<< andThen("AddOneMonthFree") >>, noOp) >>,
                 noOp),
            doIf(<< andThen("CancelSubscription"),
                    andThen("EmailUserAboutCancellation") >>,
                 noOp) >>)

\* the flow builders that are executed: the repository's flow and small flows
\* over the same actions (done first, done in the middle, never done, failing)
FlowNames ==
    { "cancelSubscriptionFlow", "doneFirst", "doneMiddle", "notDone",
      "failing", "needsArgs", "needsArgsLater" }

\* first(x).andThen(a).andThen(b) for every combination of done flags: the
\* one action that is done without arguments is EmailUserAboutCancellation
SequenceDone ==
    [seqNNN |-> << FALSE, FALSE, FALSE >>, seqNND |-> << FALSE, FALSE, TRUE >>,
     seqNDN |-> << FALSE, TRUE, FALSE >>,  seqNDD |-> << FALSE, TRUE, TRUE >>,
     seqDNN |-> << TRUE, FALSE, FALSE >>,  seqDND |-> << TRUE, FALSE, TRUE >>,
     seqDDN |-> << TRUE, TRUE, FALSE >>,   seqDDD |-> << TRUE, TRUE, TRUE >>]
SequenceNames == DOMAIN SequenceDone
Sequence(done) ==
    Pipe(first(IF done[1] THEN "EmailUserAboutCancellation"
                          ELSE "AskCancellationReason"),
         << andThen(IF done[2] THEN "EmailUserAboutCancellation"
                               ELSE "CancelSubscription"),
            andThen(IF done[3] THEN "EmailUserAboutCancellation"
                               ELSE "OfferOneMonthFree") >>)

FlowDef(f) ==
    CASE f = "cancelSubscriptionFlow" -> cancelSubscriptionFlow
      [] f = "doneFirst" ->
            Pipe(first("EmailUserAboutCancellation"),
                 << andThen("AskCancellationReason") >>)
      [] f = "doneMiddle" ->
            Pipe(first("AskCancellationReason"),
                 << andThen("EmailUserAboutCancellation"),
                    andThen("CancelSubscription"),
                    andThen("OfferOneMonthFree") >>)
      [] f = "notDone" ->
            Pipe(first("AskCancellationReason"),
                 << andThen("OfferOneMonthFree") >>)
      [] f = "failing" ->
            Pipe(first("GetSubscriptionDetails"),
                 << andThen("ChargeStub"),
                    andThen("EmailUserAboutCancellation") >>)
      [] f = "needsArgs" ->
            Pipe(first("Respond"), << andThen("AskCancellationReason") >>)
      [] f = "needsArgsLater" ->
            Pipe(first("AskCancellationReason"),
                 << andThen("SearchLogs"), andThen("OfferOneMonthFree") >>)
      [] f \in SequenceNames -> Sequence(SequenceDone[f])

\* a flow builder as it is, or piped through doIf(_, {onTrue: noOp, onFalse: noOp})
FlowBuilder(f, wrapped) ==
    IF wrapped THEN Pipe(FlowDef(f), << doIf(noOp, noOp) >>) ELSE FlowDef(f)

\* F.pipe(s, t) grouped to the right: F.pipe((flow) => flow.pipe(s, t)), for
\* the last two steps of a flow builder
GroupRight(flow) ==
    LET n == Len(flow.steps) IN
    [first |-> flow.first,
     steps |-> Append(SubSeq(flow.steps, 1, n - 2),
                      pipe(SubSeq(flow.steps, n - 1, n)))]

\* the opaque execution states handed to Flow.execute; `{}` is the empty one
EmptyState == "{}"
ExecutionStates == {EmptyState, "s1"}

\* ===== Workflows (createWorkflow configs) =====

\* one workflow per flow builder; cancelSubscriptionWorkflow is lines 620-624
WorkflowNames == FlowNames
WorkflowName(w) ==
    IF w = "cancelSubscriptionFlow" THEN "Cancel a subscription" ELSE w
WorkflowFlow(w) == FlowDef(w)

\* ===== Agents (createAgent configs) =====

AgentConfig(name, actions, workflows, agents) ==
    [name |-> name, actions |-> actions, workflows |-> workflows, agents |-> agents]

AgentNames ==
    { "logsAgent", "paymentAgent", "subscriptionAgent", "supportAgent",
      "emptyAgent", "loopAgent", "doneAgent", "childAgent", "parentAgent",
      "pingAgent", "pongAgent" }

AgentDef(g) ==
    CASE g = "logsAgent" ->
            AgentConfig("Logs Agent", << "SearchLogs", "Respond" >>, <<>>, <<>>)
      [] g = "paymentAgent" ->
            AgentConfig("Payment Agent", << "GetPayments", "Respond" >>, <<>>, <<>>)
      [] g = "subscriptionAgent" ->
            AgentConfig("Subscription Agent",
                        << "GetSubscriptionDetails", "Respond" >>,
                        << "cancelSubscriptionFlow" >>, <<>>)
      [] g = "supportAgent" ->
            AgentConfig("Support Agent", << "Respond" >>, <<>>, <<>>)
      [] g = "emptyAgent" ->
            AgentConfig("Empty Agent", <<>>, <<>>, <<>>)
      [] g = "loopAgent" ->
            AgentConfig("Loop Agent", << "AskCancellationReason" >>, <<>>, <<>>)
      [] g = "doneAgent" ->
            AgentConfig("Done Agent", << "EmailUserAboutCancellation" >>, <<>>, <<>>)
      [] g = "childAgent" ->
            AgentConfig("Child Agent", << "ChargeStub" >>, << "doneMiddle" >>,
                        << "doneAgent" >>)
      [] g = "parentAgent" ->
            AgentConfig("Parent Agent", << "AskCancellationReason" >>,
                        << "notDone" >>, << "loopAgent", "childAgent", "emptyAgent" >>)
      [] g = "pingAgent" ->
            AgentConfig("Ping Agent", <<>>, <<>>, << "pongAgent" >>)
      [] g = "pongAgent" ->
            AgentConfig("Pong Agent", <<>>, <<>>, << "pingAgent" >>)

\* ===== State =====

VARIABLES
    conversationHistory,  \* AgentStateService: the history array (line 82)
    stack,                \* the Effects being run, innermost last
    exit,                 \* Exit of the Effect that finished last
    runs,                 \* top-level calls started so far
    call,                 \* the top-level call being run (or run last)
    log,                  \* what the current top-level call has done so far
    prev,                 \* call, log and exit of the top-level call before
    serviceExecutionState, \* AgentStateService: the executionState object (line 83)
    writes,               \* the partial states updateState was given, in order
    obtained,             \* what callers hold from getHistory and getState
    suspended,            \* the concurrent Agent.execute that is not running now
    switches              \* times the runtime went from one run to the other

\* the part of the state no step of an action, flow, workflow or agent touches
fibers == << suspended, switches >>
store == << serviceExecutionState, writes, obtained, fibers >>

vars == << conversationHistory, stack, exit, runs, call, log, prev, store >>

NoResult == FlowIntermediateResult(FALSE, "", "")

NoCall ==
    [op |-> "none", subject |-> "", wrapped |-> FALSE, state |-> "",
     options |-> [given |-> FALSE, maxLoops |-> 0], args |-> EmptyArgs,
     grouped |-> FALSE]

\* calls: actions whose handle was invoked; bodies: actions whose execute ran,
\* with the request it got; decisions: doIf conditions as evaluated;
\* layers: what each layer of the flow executed last did;
\* dispatched: capabilities an agent loop dispatched; loops: loop iterations
\* started; selections: capability selections made;
\* produced: done=true results as they left an action or an agent;
\* failures: typed errors as they left an action;
\* outOfRange: selections of an index the candidate set does not have;
\* from: length of the history when the call was made
EmptyLog ==
    [calls |-> <<>>, bodies |-> <<>>, decisions |-> <<>>, layers |-> <<>>,
     dispatched |-> <<>>, loops |-> 0, selections |-> 0, produced |-> <<>>,
     failures |-> <<>>, outOfRange |-> <<>>, from |-> 0]

\* a done=true result or a typed error, with how far the call had got
Produced(result, l) ==
    [result |-> result, calls |-> Len(l.calls), dispatched |-> Len(l.dispatched),
     loops |-> l.loops]
Failed(error, l) ==
    [error |-> error, calls |-> Len(l.calls), dispatched |-> Len(l.dispatched),
     loops |-> l.loops]

Top == stack[Len(stack)]
Pop == SubSeq(stack, 1, Len(stack) - 1)
Replace(frame) == [stack EXCEPT ![Len(stack)] = frame]
Running(kind, pc) == stack # <<>> /\ Top.kind = kind /\ Top.pc = pc

ActionFrame(a, args) ==
    [kind |-> "action", action |-> a, args |-> args, pc |-> "decode",
     request |-> <<>>]
FlowWrapFrame(builder) ==
    [kind |-> "flowWrap", pc |-> "resolve", flow |-> << builder.first >>,
     todo |-> builder.steps]
FlowFrame(flow, executionState) ==
    [kind |-> "flow", pc |-> "run", flow |-> flow, layer |-> 1,
     executionState |-> executionState, prevResult |-> NoResult]
WorkflowFrame(w) == [kind |-> "workflow", pc |-> "flow", workflow |-> w]
AgentFrame(g, maxLoops) ==
    [kind |-> "agent", pc |-> "start", agent |-> g, maxLoops |-> maxLoops,
     loopCount |-> 0, selectionIndex |-> 0]
HarnessFrame(builder, executionState) ==
    [kind |-> "harness", pc |-> "flow", builder |-> builder,
     executionState |-> executionState]

\* no second run
NoRun == [stack |-> <<>>, exit |-> NoExit, call |-> NoCall, log |-> EmptyLog]

\* line 83: {}
EmptyObject == [key \in {} |-> ""]

Init ==
    /\ conversationHistory = <<>>
    /\ stack = <<>>
    /\ exit = NoExit
    /\ runs = 0
    /\ call = NoCall
    /\ log = EmptyLog
    /\ prev = [call |-> NoCall, log |-> EmptyLog, exit |-> NoExit]
    /\ serviceExecutionState = EmptyObject
    /\ writes = <<>>
    /\ obtained = <<>>
    /\ suspended = NoRun
    /\ switches = 0

\* ===== AgentStateService (lines 78-107) =====

\* a slip: a message the history already has is not added again
addMessageOnce(history, message) ==
    IF \E i \in 1..Len(history) : history[i] = message
    THEN history ELSE Append(history, message)

\* a slip: the message is put in front (unshift for push)
addMessageUnshift(history, message) == << message >> \o history

\* addMessage: conversationHistory.push(message)
addMessage(history, message) == Append(history, message)

\* getHistory (line 90): Effect.succeed(conversationHistory) hands out the
\* array itself, the one addMessage pushes to; not a copy of it
getHistory == [ref |-> "conversationHistory"]

\* a slip: the spread takes the new state first, so the earlier write wins
updateStateEarlierWins(state, newState) ==
    [key \in DOMAIN state \cup DOMAIN newState |->
        IF key \in DOMAIN state THEN state[key] ELSE newState[key]]

\* updateState (lines 92-95): executionState = { ...executionState, ...newState }
updateState(state, newState) ==
    [key \in DOMAIN state \cup DOMAIN newState |->
        IF key \in DOMAIN newState THEN newState[key] ELSE state[key]]

\* getState (line 97): Effect.succeed(executionState) hands out the object
\* the variable holds; updateState never writes to that object, it makes
\* another one
getState(state) == [object |-> state]

\* what a caller reads through a value it was handed
Contents(value) ==
    IF "ref" \in DOMAIN value THEN conversationHistory ELSE value.object

\* ===== createAction: handle (lines 122-127) =====

\* Schema.decodeUnknown(config.Params)(args), mapError to ParseError
HandleDecode ==
    /\ Running("action", "decode")
    /\ LET called == [log EXCEPT !.calls = Append(@, Top.action)] IN
       IF DecodeOk(ActionParams(Top.action), Top.args)
       THEN /\ stack' = Replace([Top EXCEPT
                        !.pc = "execute",
                        !.request = DecodeValue(ActionParams(Top.action), Top.args)])
            /\ log' = called
            /\ UNCHANGED exit
       ELSE /\ stack' = Pop
            /\ log' = [called EXCEPT !.failures = Append(@, Failed("ParseError", called))]
            /\ exit' = Failure("ParseError")
    /\ UNCHANGED << conversationHistory, runs, call, prev, store >>

\* Effect.flatMap(config.execute)
HandleExecute ==
    /\ Running("action", "execute")
    /\ LET out == ActionExecute(Top.action, Top.request) IN
        /\ exit' = out
        /\ log' = [log EXCEPT
                !.bodies = Append(@, [action |-> Top.action, request |-> Top.request]),
                !.produced = IF out.tag = "Success" /\ out.value.done
                             THEN Append(@, Produced(out.value.result, log))
                             ELSE @,
                !.failures = IF out.tag = "Failure"
                             THEN Append(@, Failed(out.error, log))
                             ELSE @]
    /\ stack' = Pop
    /\ UNCHANGED << conversationHistory, runs, call, prev, store >>

\* ===== Flow DSL: running a flow builder gives a Flow =====

\* a Flow is the sequence of its layers' actions: first(step), then one
\* andThen(step) layer around the other

\* andThen(step)(previousFlow), lines 157-160: a new Flow around prevFlow
ResolveAndThen ==
    /\ Running("flowWrap", "resolve")
    /\ Top.todo # <<>>
    /\ Head(Top.todo).op = "andThen"
    /\ stack' = Replace([Top EXCEPT !.flow = Append(@, Head(Top.todo).step),
                                    !.todo = Tail(@)])
    /\ UNCHANGED << conversationHistory, exit, runs, call, log, prev, store >>

\* a step that is itself flow.pipe(...): its steps are applied in turn
ResolvePipe ==
    /\ Running("flowWrap", "resolve")
    /\ Top.todo # <<>>
    /\ Head(Top.todo).op = "pipe"
    /\ stack' = Replace([Top EXCEPT !.todo = pipeSteps(Head(Top.todo)) \o Tail(@)])
    /\ UNCHANGED << conversationHistory, exit, runs, call, log, prev, store >>

\* a slip: both arms are resolved and then one of the two Flows is chosen, so
\* the doIf steps of the other arm take their decisions too
ResolveDoIfBothArms ==
    /\ Running("flowWrap", "resolve")
    /\ Top.todo # <<>>
    /\ Head(Top.todo).op = "doIf"
    /\ \E conditionMet \in BOOLEAN :
        LET other == SelectSeq(doIfArm(Head(Top.todo), ~conditionMet),
                               LAMBDA s : s.op = "doIf") IN
        /\ stack' = Replace([Top EXCEPT
                    !.todo = doIfArm(Head(Top.todo), conditionMet) \o Tail(@)])
        /\ log' = [log EXCEPT !.decisions =
                        Append(@, conditionMet) \o [i \in 1..Len(other) |-> FALSE]]
    /\ UNCHANGED << conversationHistory, exit, runs, call, prev, store >>

\* a slip: the condition is evaluated once and the answer is kept for the
\* executions that follow
ResolveDoIfCached ==
    /\ Running("flowWrap", "resolve")
    /\ Top.todo # <<>>
    /\ Head(Top.todo).op = "doIf"
    /\ \E conditionMet \in
            (IF Len(prev.log.decisions) > Len(log.decisions)
             THEN {prev.log.decisions[Len(log.decisions) + 1]} ELSE BOOLEAN) :
        /\ stack' = Replace([Top EXCEPT
                    !.todo = doIfArm(Head(Top.todo), conditionMet) \o Tail(@)])
        /\ log' = [log EXCEPT !.decisions = Append(@, conditionMet)]
    /\ UNCHANGED << conversationHistory, exit, runs, call, prev, store >>

\* doIf(...)(previousFlow), lines 202-214: conditionMet = Math.random() > 0.5,
\* then the chosen arm continues from Effect.succeed(prevFlow)
ResolveDoIf ==
    /\ Running("flowWrap", "resolve")
    /\ Top.todo # <<>>
    /\ Head(Top.todo).op = "doIf"
    /\ \E conditionMet \in BOOLEAN :
        /\ stack' = Replace([Top EXCEPT
                    !.todo = doIfArm(Head(Top.todo), conditionMet) \o Tail(@)])
        /\ log' = [log EXCEPT !.decisions = Append(@, conditionMet)]
    /\ UNCHANGED << conversationHistory, exit, runs, call, prev, store >>

\* the flow builder has produced its Flow
ResolveDone ==
    /\ Running("flowWrap", "resolve")
    /\ Top.todo = <<>>
    /\ stack' = Pop
    /\ exit' = Success(Top.flow)
    /\ UNCHANGED << conversationHistory, runs, call, log, prev, store >>

\* ===== Flow DSL: Flow.execute =====

LayerEntry(frame, invoked, out) ==
    [layer |-> frame.layer, step |-> frame.flow[frame.layer], invoked |-> invoked,
     prevResult |-> frame.prevResult, out |-> out]

\* first: step.handle({}), line 140
FirstHandle ==
    /\ Running("flow", "run")
    /\ Top.layer = 1
    /\ stack' = Replace([Top EXCEPT !.pc = "handled"])
                    \o << ActionFrame(Top.flow[1], EmptyArgs) >>
    /\ UNCHANGED << conversationHistory, exit, runs, call, log, prev, store >>

\* first: the result with nextState: executionState, lines 141-147
FirstResult ==
    /\ Running("flow", "handled")
    /\ Top.layer = 1
    /\ exit.tag = "Success"
    /\ LET out == FlowIntermediateResult(exit.value.done, exit.value.result,
                                         Top.executionState) IN
        /\ stack' = Replace([Top EXCEPT !.pc = "run", !.layer = 2,
                                        !.prevResult = out])
        /\ log' = [log EXCEPT !.layers = Append(@, LayerEntry(Top, TRUE, out))]
    /\ UNCHANGED << conversationHistory, exit, runs, call, prev, store >>

\* a slip: the prior result's done flag is not looked at
andThenShortCircuitsNever(prevResult) == FALSE

\* andThen: `prevResult.done ?`, line 165
andThenShortCircuits(prevResult) == prevResult.done

\* andThen: Effect.succeed(prevResult), line 166
andThenSkipped(prevResult) == prevResult

\* a slip: the step's result is handed on as the next state
andThenResultAsState(prevResult, result) ==
    FlowIntermediateResult(result.done, result.result, result.result)

\* andThen: the step's result paired with the prior nextState, lines 170-174
andThenResult(prevResult, result) ==
    FlowIntermediateResult(result.done, result.result, prevResult.nextState)

\* andThen, line 166: the prior result is done, the step is skipped
AndThenSkip ==
    /\ Running("flow", "run")
    /\ Top.layer \in 2..Len(Top.flow)
    /\ andThenShortCircuits(Top.prevResult)
    /\ LET out == andThenSkipped(Top.prevResult) IN
        /\ stack' = Replace([Top EXCEPT !.layer = @ + 1, !.prevResult = out])
        /\ log' = [log EXCEPT !.layers = Append(@, LayerEntry(Top, FALSE, out))]
    /\ UNCHANGED << conversationHistory, exit, runs, call, prev, store >>

\* andThen, line 168: step.handle({})
AndThenHandle ==
    /\ Running("flow", "run")
    /\ Top.layer \in 2..Len(Top.flow)
    /\ ~andThenShortCircuits(Top.prevResult)
    /\ stack' = Replace([Top EXCEPT !.pc = "handled"])
                    \o << ActionFrame(Top.flow[Top.layer], EmptyArgs) >>
    /\ UNCHANGED << conversationHistory, exit, runs, call, log, prev, store >>

\* andThen, lines 169-175
AndThenResult ==
    /\ Running("flow", "handled")
    /\ Top.layer >= 2
    /\ exit.tag = "Success"
    /\ LET out == andThenResult(Top.prevResult, exit.value) IN
        /\ stack' = Replace([Top EXCEPT !.pc = "run", !.layer = @ + 1,
                                        !.prevResult = out])
        /\ log' = [log EXCEPT !.layers = Append(@, LayerEntry(Top, TRUE, out))]
    /\ UNCHANGED << conversationHistory, exit, runs, call, prev, store >>

\* a failed step.handle fails the flow: flatMap runs nothing after it
FlowFail ==
    /\ Running("flow", "handled")
    /\ exit.tag # "Success"
    /\ stack' = Pop
    /\ UNCHANGED << conversationHistory, exit, runs, call, log, prev, store >>

\* the outermost layer's result is the result of Flow.execute
FlowReturn ==
    /\ Running("flow", "run")
    /\ Top.layer > Len(Top.flow)
    /\ stack' = Pop
    /\ exit' = Success(Top.prevResult)
    /\ UNCHANGED << conversationHistory, runs, call, log, prev, store >>

\* ===== createWorkflow: execute (lines 228-236) =====

\* the state a workflow seeds its flow with, line 231
workflowInitialState == EmptyState

\* slips: done is lost on the way out; the flow's result is handed on whole
workflowResultDowngrades(result) == ActionReturn(FALSE, result.result)
workflowResultKeepsState(result) == result

\* Effect.map, lines 232-235
workflowResult(result) == ActionReturn(result.done, result.result)

\* config.flow is run, line 230
WorkflowFlowWrap ==
    /\ Running("workflow", "flow")
    /\ stack' = Replace([Top EXCEPT !.pc = "execute"])
                    \o << FlowWrapFrame(WorkflowFlow(Top.workflow)) >>
    /\ UNCHANGED << conversationHistory, exit, runs, call, log, prev, store >>

\* flow.execute({}), line 231
WorkflowExecute ==
    /\ Running("workflow", "execute")
    /\ exit.tag = "Success"
    /\ stack' = Replace([Top EXCEPT !.pc = "map"])
                    \o << FlowFrame(exit.value, workflowInitialState) >>
    /\ log' = [log EXCEPT !.layers = <<>>]
    /\ UNCHANGED << conversationHistory, exit, runs, call, prev, store >>

WorkflowMap ==
    /\ Running("workflow", "map")
    /\ exit.tag = "Success"
    /\ stack' = Pop
    /\ exit' = Success(workflowResult(exit.value))
    /\ UNCHANGED << conversationHistory, runs, call, log, prev, store >>

\* a slip: the flow's failure is turned into a default result
WorkflowFailDefaults ==
    /\ Running("workflow", "map")
    /\ exit.tag # "Success"
    /\ stack' = Pop
    /\ exit' = Success(ActionReturn(FALSE, ""))
    /\ UNCHANGED << conversationHistory, runs, call, log, prev, store >>

WorkflowFail ==
    /\ Running("workflow", "map")
    /\ exit.tag # "Success"
    /\ stack' = Pop
    /\ UNCHANGED << conversationHistory, exit, runs, call, log, prev, store >>

\* ===== a caller that runs a flow builder and executes its Flow directly =====

HarnessFlowWrap ==
    /\ Running("harness", "flow")
    /\ stack' = Replace([Top EXCEPT !.pc = "execute"])
                    \o << FlowWrapFrame(Top.builder) >>
    /\ UNCHANGED << conversationHistory, exit, runs, call, log, prev, store >>

HarnessExecute ==
    /\ Running("harness", "execute")
    /\ exit.tag = "Success"
    /\ stack' = Replace([Top EXCEPT !.pc = "result"])
                    \o << FlowFrame(exit.value, Top.executionState) >>
    /\ log' = [log EXCEPT !.layers = <<>>]
    /\ UNCHANGED << conversationHistory, exit, runs, call, prev, store >>

HarnessResult ==
    /\ Running("harness", "result")
    /\ stack' = Pop
    /\ UNCHANGED << conversationHistory, exit, runs, call, log, prev, store >>

\* ===== createAgent: execute (lines 251-360) =====

\* options.maxLoops ?? 10, line 257
DefaultMaxLoops == 10
maxLoopsOf(options) == IF options.given THEN options.maxLoops ELSE DefaultMaxLoops

\* the budget of a sub-agent call, line 338
SubAgentMaxLoops == 5

\* capabilities, lines 269-282
Capability(tag, value) == [tag |-> tag, value |-> value]
Capabilities(g) ==
    [i \in 1..Len(AgentDef(g).actions) |-> Capability("Action", AgentDef(g).actions[i])]
    \o [i \in 1..Len(AgentDef(g).workflows) |-> Capability("Workflow", AgentDef(g).workflows[i])]
    \o [i \in 1..Len(AgentDef(g).agents) |-> Capability("Agent", AgentDef(g).agents[i])]

\* Math.floor(Math.random() * capabilities.length), line 292
RandomIndices(length) == 0..(length - 1)

\* a slip: the index is wrapped into the array instead of refused
ArrayGetWraps(self, index) ==
    [tag |-> "Some", value |-> self[(index % Len(self)) + 1]]

\* Array.get(capabilities, selectionIndex), line 293
ArrayGet(self, index) ==
    IF index >= 0 /\ index < Len(self)
    THEN [tag |-> "Some", value |-> self[index + 1]]
    ELSE [tag |-> "None"]

\* slips: one iteration too many; the test made after the first iteration
loopContinuesInclusive(loopCount, maxLoops) == loopCount <= maxLoops
loopContinuesDoWhile(loopCount, maxLoops) == loopCount = 0 \/ loopCount < maxLoops

\* `while (loopCount < maxLoops)`, line 260
loopContinues(loopCount, maxLoops) == loopCount < maxLoops

\* a slip: the loop does not look at done
agentCompletesNever(result) == FALSE

\* `if (result.done)`, line 344
agentCompletes(result) == result.done

\* message: where in the history the dispatch's trace message is
DispatchEntry(frame, capability) ==
    [agent |-> frame.agent, depth |-> Len(stack), loop |-> frame.loopCount + 1,
     tag |-> capability.tag, value |-> capability.value,
     maxLoops |-> frame.maxLoops, message |-> Len(conversationHistory) + 1]

\* line 255
AgentStart ==
    /\ Running("agent", "start")
    /\ conversationHistory' = addMessage(conversationHistory,
            "Starting agent: " \o AgentDef(Top.agent).name)
    /\ stack' = Replace([Top EXCEPT !.pc = "while"])
    /\ UNCHANGED << exit, runs, call, log, prev, store >>

\* a slip: the loop-start message counts from 0
AgentLoopZeroBased ==
    /\ Running("agent", "while")
    /\ loopContinues(Top.loopCount, Top.maxLoops)
    /\ conversationHistory' = addMessage(conversationHistory,
            "Agent loop " \o ToString(Top.loopCount) \o "/" \o ToString(Top.maxLoops))
    /\ stack' = Replace([Top EXCEPT !.pc = "capabilities"])
    /\ log' = [log EXCEPT !.loops = @ + 1]
    /\ UNCHANGED << exit, runs, call, prev, store >>

\* lines 260-261: another iteration
AgentLoop ==
    /\ Running("agent", "while")
    /\ loopContinues(Top.loopCount, Top.maxLoops)
    /\ conversationHistory' = addMessage(conversationHistory,
            "Agent loop " \o ToString(Top.loopCount + 1) \o "/" \o ToString(Top.maxLoops))
    /\ stack' = Replace([Top EXCEPT !.pc = "capabilities"])
    /\ log' = [log EXCEPT !.loops = @ + 1]
    /\ UNCHANGED << exit, runs, call, prev, store >>

\* a slip: running out of loops is reported as a result that is not final
AgentMaxLoopsNotDone ==
    /\ Running("agent", "while")
    /\ ~loopContinues(Top.loopCount, Top.maxLoops)
    /\ conversationHistory' = addMessage(conversationHistory,
            "Agent reached max loops (" \o ToString(Top.maxLoops) \o ")")
    /\ stack' = Pop
    /\ exit' = Success(ActionReturn(FALSE,
            "Agent reached maximum loops (" \o ToString(Top.maxLoops) \o ")"))
    /\ log' = [log EXCEPT !.produced = Append(@, Produced(exit'.value.result, log))]
    /\ UNCHANGED << runs, call, prev, store >>

\* lines 354-359: max loops reached
AgentMaxLoops ==
    /\ Running("agent", "while")
    /\ ~loopContinues(Top.loopCount, Top.maxLoops)
    /\ conversationHistory' = addMessage(conversationHistory,
            "Agent reached max loops (" \o ToString(Top.maxLoops) \o ")")
    /\ stack' = Pop
    /\ exit' = Success(ActionReturn(TRUE,
            "Agent reached maximum loops (" \o ToString(Top.maxLoops) \o ")"))
    /\ log' = [log EXCEPT !.produced = Append(@, Produced(exit'.value.result, log))]
    /\ UNCHANGED << runs, call, prev, store >>

\* a slip: an agent with nothing to do fails
AgentNoCapabilitiesFails ==
    /\ Running("agent", "capabilities")
    /\ Len(Capabilities(Top.agent)) = 0
    /\ stack' = Pop
    /\ exit' = Failure("AgentExecutionError")
    /\ UNCHANGED << conversationHistory, runs, call, log, prev, store >>

\* lines 284-289
AgentNoCapabilities ==
    /\ Running("agent", "capabilities")
    /\ Len(Capabilities(Top.agent)) = 0
    /\ stack' = Pop
    /\ exit' = Success(ActionReturn(TRUE, "No capabilities available"))
    /\ log' = [log EXCEPT !.produced = Append(@, Produced(exit'.value.result, log))]
    /\ UNCHANGED << conversationHistory, runs, call, prev, store >>

Select(indices) ==
    /\ Running("agent", "capabilities")
    /\ Len(Capabilities(Top.agent)) # 0
    /\ \E selectionIndex \in indices :
        /\ stack' = Replace([Top EXCEPT !.pc = "selected",
                                        !.selectionIndex = selectionIndex])
        /\ log' = [log EXCEPT
                !.selections = @ + 1,
                !.outOfRange =
                    IF selectionIndex \in 0..(Len(Capabilities(Top.agent)) - 1)
                    THEN @ ELSE Append(@, Failed("index", log))]
    /\ UNCHANGED << conversationHistory, exit, runs, call, prev, store >>

\* line 292: the selection the source makes
AgentSelect == Select(RandomIndices(Len(Capabilities(Top.agent))))

\* the selection of an injected decision provider, which may answer with an
\* index the candidate set does not have
ProviderIndices(length) == (0 - 1)..length
AgentSelectProvider == Select(ProviderIndices(Len(Capabilities(Top.agent))))

\* lines 299-304: Effect.die on an index Array.get has nothing for
AgentDie ==
    /\ Running("agent", "selected")
    /\ ArrayGet(Capabilities(Top.agent), Top.selectionIndex).tag = "None"
    /\ stack' = Pop
    /\ exit' = Die("Impossible: index out of bounds")
    /\ UNCHANGED << conversationHistory, runs, call, log, prev, store >>

Selected(tag) ==
    /\ Running("agent", "selected")
    /\ ArrayGet(Capabilities(Top.agent), Top.selectionIndex).tag = "Some"
    /\ ArrayGet(Capabilities(Top.agent), Top.selectionIndex).value.tag = tag

SelectedCapability == ArrayGet(Capabilities(Top.agent), Top.selectionIndex).value

\* a slip: the action is handed a response to give
AgentDispatchActionWithArgs ==
    /\ Selected("Action")
    /\ conversationHistory' = addMessage(conversationHistory,
            "Executing action: " \o SelectedCapability.value)
    /\ stack' = Replace([Top EXCEPT !.pc = "dispatched"])
                    \o << ActionFrame(SelectedCapability.value,
                            [EmptyArgs EXCEPT !["response"] = StringValue("hi")]) >>
    /\ log' = [log EXCEPT !.dispatched = Append(@, DispatchEntry(Top, SelectedCapability))]
    /\ UNCHANGED << exit, runs, call, prev, store >>

\* lines 312-320
AgentDispatchAction ==
    /\ Selected("Action")
    /\ conversationHistory' = addMessage(conversationHistory,
            "Executing action: " \o SelectedCapability.value)
    /\ stack' = Replace([Top EXCEPT !.pc = "dispatched"])
                    \o << ActionFrame(SelectedCapability.value, EmptyArgs) >>
    /\ log' = [log EXCEPT !.dispatched = Append(@, DispatchEntry(Top, SelectedCapability))]
    /\ UNCHANGED << exit, runs, call, prev, store >>

\* a slip: the workflow case records the dispatch and runs nothing
AgentDispatchWorkflowSkips ==
    /\ Selected("Workflow")
    /\ conversationHistory' = addMessage(conversationHistory,
            "Executing workflow: " \o WorkflowName(SelectedCapability.value))
    /\ stack' = Replace([Top EXCEPT !.pc = "dispatched"])
    /\ exit' = Success(ActionReturn(FALSE, ""))
    /\ log' = [log EXCEPT !.dispatched = Append(@, DispatchEntry(Top, SelectedCapability))]
    /\ UNCHANGED << runs, call, prev, store >>

\* lines 322-330
AgentDispatchWorkflow ==
    /\ Selected("Workflow")
    /\ conversationHistory' = addMessage(conversationHistory,
            "Executing workflow: " \o WorkflowName(SelectedCapability.value))
    /\ stack' = Replace([Top EXCEPT !.pc = "dispatched"])
                    \o << WorkflowFrame(SelectedCapability.value) >>
    /\ log' = [log EXCEPT !.dispatched = Append(@, DispatchEntry(Top, SelectedCapability))]
    /\ UNCHANGED << exit, runs, call, prev, store >>

\* a slip: the sub-agent is handed the budget of its parent
AgentDispatchAgentInherits ==
    /\ Selected("Agent")
    /\ Len(stack) < MaxDepth
    /\ conversationHistory' = addMessage(conversationHistory,
            "Delegating to sub-agent: " \o AgentDef(SelectedCapability.value).name)
    /\ stack' = Replace([Top EXCEPT !.pc = "dispatched"])
                    \o << AgentFrame(SelectedCapability.value, Top.maxLoops) >>
    /\ log' = [log EXCEPT !.dispatched = Append(@, DispatchEntry(Top, SelectedCapability))]
    /\ UNCHANGED << exit, runs, call, prev, store >>

\* lines 332-340
AgentDispatchAgent ==
    /\ Selected("Agent")
    /\ Len(stack) < MaxDepth
    /\ conversationHistory' = addMessage(conversationHistory,
            "Delegating to sub-agent: " \o AgentDef(SelectedCapability.value).name)
    /\ stack' = Replace([Top EXCEPT !.pc = "dispatched"])
                    \o << AgentFrame(SelectedCapability.value,
                            maxLoopsOf([given |-> TRUE, maxLoops |-> SubAgentMaxLoops])) >>
    /\ log' = [log EXCEPT !.dispatched = Append(@, DispatchEntry(Top, SelectedCapability))]
    /\ UNCHANGED << exit, runs, call, prev, store >>

\* lines 344-349
AgentDone ==
    /\ Running("agent", "dispatched")
    /\ exit.tag = "Success"
    /\ agentCompletes(exit.value)
    /\ conversationHistory' = addMessage(conversationHistory,
            "Completed with result: " \o exit.value.result)
    /\ stack' = Pop
    /\ UNCHANGED << exit, runs, call, log, prev, store >>

\* a slip: the iteration is not counted
AgentContinueForgetsCount ==
    /\ Running("agent", "dispatched")
    /\ exit.tag = "Success"
    /\ ~agentCompletes(exit.value)
    /\ stack' = Replace([Top EXCEPT !.pc = "while"])
    /\ UNCHANGED << conversationHistory, exit, runs, call, log, prev, store >>

\* line 351
AgentContinue ==
    /\ Running("agent", "dispatched")
    /\ exit.tag = "Success"
    /\ ~agentCompletes(exit.value)
    /\ stack' = Replace([Top EXCEPT !.pc = "while", !.loopCount = @ + 1])
    /\ UNCHANGED << conversationHistory, exit, runs, call, log, prev, store >>

\* a slip: the failure is caught and the loop goes on
AgentFailRetries ==
    /\ Running("agent", "dispatched")
    /\ exit.tag # "Success"
    /\ stack' = Replace([Top EXCEPT !.pc = "while", !.loopCount = @ + 1])
    /\ UNCHANGED << conversationHistory, exit, runs, call, log, prev, store >>

\* a failed `yield*` ends the generator with that failure
AgentFail ==
    /\ Running("agent", "dispatched")
    /\ exit.tag # "Success"
    /\ stack' = Pop
    /\ UNCHANGED << conversationHistory, exit, runs, call, log, prev, store >>

\* ===== The calls made from outside =====

\* the options a top-level Agent.execute is given: maxLoops 0..MaxLoopsOption,
\* and none at all for the agents with at most one capability
AgentOptions(g) ==
    { [given |-> TRUE, maxLoops |-> n] : n \in 0..MaxLoopsOption }
    \cup (IF Len(Capabilities(g)) <= 1
          THEN { [given |-> FALSE, maxLoops |-> 0] } ELSE {})

CanStart ==
    /\ stack = <<>>
    /\ runs < MaxRuns
    /\ Len(conversationHistory) <= MaxCarry

\* the calls of one behaviour are made on the same action, flow builder,
\* workflow or agent, and from the same execution state
Started(c, frame) ==
    /\ CanStart
    /\ call.op # "none" =>
            (c.op = call.op /\ c.subject = call.subject /\ c.state = call.state)
    /\ prev' = [call |-> call, log |-> log, exit |-> exit]
    /\ call' = c
    /\ log' = [EmptyLog EXCEPT !.from = Len(conversationHistory)]
    /\ exit' = NoExit
    /\ runs' = runs + 1
    /\ stack' = << frame >>
    /\ UNCHANGED << conversationHistory, store >>

\* agent.execute(options)
StartAgent ==
    \E g \in AgentNames : \E options \in AgentOptions(g) :
        Started([NoCall EXCEPT !.op = "agent", !.subject = g, !.options = options],
                AgentFrame(g, maxLoopsOf(options)))

\* workflow.execute()
StartWorkflow ==
    \E w \in WorkflowNames :
        Started([NoCall EXCEPT !.op = "workflow", !.subject = w], WorkflowFrame(w))

\* flow.execute(executionState) on the Flow of a flow builder
StartFlow ==
    \E f \in FlowNames \cup SequenceNames, wrapped \in BOOLEAN,
       executionState \in ExecutionStates :
        Started([NoCall EXCEPT !.op = "flow", !.subject = f, !.wrapped = wrapped,
                               !.state = executionState],
                HarnessFrame(FlowBuilder(f, wrapped), executionState))

\* the same on the flow builder with its last two steps grouped to the right
StartFlowGrouped ==
    \E f \in FlowNames \cup SequenceNames, executionState \in ExecutionStates :
        /\ Len(FlowDef(f).steps) >= 2
        /\ Started([NoCall EXCEPT !.op = "flow", !.subject = f, !.grouped = TRUE,
                                  !.state = executionState],
                   HarnessFrame(GroupRight(FlowDef(f)), executionState))

\* action.handle(args)
StartHandle ==
    \E a \in ActionNames, args \in ArgsUniverse :
        Started([NoCall EXCEPT !.op = "handle", !.subject = a, !.args = args],
                ActionFrame(a, args))

\* ===== Two runs on one store =====

\* the agents run concurrently: those whose capabilities are actions
SharedAgents ==
    { g \in AgentNames : AgentDef(g).workflows = <<>> /\ AgentDef(g).agents = <<>> }

\* two agent.execute(options) forked under one provided AgentStateService: the
\* first starts running, the second waits to be run
ExecuteTwo ==
    /\ CanStart
    /\ runs + 2 <= MaxRuns
    /\ call.op = "none"
    /\ \E g \in SharedAgents, h \in SharedAgents :
       \E n \in 0..MaxLoopsOption, m \in 0..MaxLoopsOption :
        /\ call' = [NoCall EXCEPT !.op = "agent", !.subject = g,
                                  !.options = [given |-> TRUE, maxLoops |-> n]]
        /\ stack' = << AgentFrame(g, maxLoopsOf(call'.options)) >>
        /\ suspended' =
              [stack |-> << AgentFrame(h, maxLoopsOf([given |-> TRUE, maxLoops |-> m])) >>,
               exit |-> NoExit,
               call |-> [NoCall EXCEPT !.op = "agent", !.subject = h,
                                       !.options = [given |-> TRUE, maxLoops |-> m]],
               log |-> EmptyLog]
    /\ log' = EmptyLog
    /\ exit' = NoExit
    /\ runs' = runs + 2
    /\ UNCHANGED << conversationHistory, prev, serviceExecutionState, writes,
                    obtained, switches >>

\* the runtime suspends the run it is running, between two of its steps or
\* after its last, and goes on with the other
Switch ==
    /\ suspended # NoRun
    /\ suspended.stack # <<>>
    /\ switches < MaxSwitches
    /\ suspended' = [stack |-> stack, exit |-> exit, call |-> call, log |-> log]
    /\ stack' = suspended.stack
    /\ exit' = suspended.exit
    /\ call' = suspended.call
    /\ log' = suspended.log
    /\ switches' = switches + 1
    /\ UNCHANGED << conversationHistory, runs, prev, serviceExecutionState,
                    writes, obtained >>

\* ===== The store used from outside (lines 672-729) =====

\* messages a caller records itself (line 726)
ExternalMessages == {"Framework initialized successfully!"}

StateKeys == {"plan", "step"}
StateValues == {"v1", "v2"}

\* Partial<Record<string, unknown>>: any subset of the keys, each with a value
PartialStates == UNION {[keys -> StateValues] : keys \in SUBSET StateKeys}

\* state.addMessage(message) by the caller, as its first call on the store
\* or as its last
AddMessage ==
    /\ CanStart
    /\ (runs = 0 \/ runs + 1 = MaxRuns)
    /\ \E message \in ExternalMessages :
        conversationHistory' = addMessage(conversationHistory, message)
    /\ runs' = runs + 1
    /\ UNCHANGED << stack, exit, call, log, prev, store >>

\* history = yield* state.getHistory()
GetHistory ==
    /\ stack = <<>>
    /\ Len(obtained) < MaxObtained
    /\ obtained' = Append(obtained,
            [from |-> "getHistory", value |-> getHistory,
             seen |-> conversationHistory])
    /\ UNCHANGED << conversationHistory, stack, exit, runs, call, log, prev,
                    serviceExecutionState, writes, fibers >>

\* state.updateState(newState)
UpdateState ==
    /\ stack = <<>>
    /\ Len(writes) < MaxWrites
    /\ \E newState \in PartialStates :
        /\ serviceExecutionState' = updateState(serviceExecutionState, newState)
        /\ writes' = Append(writes, newState)
    /\ UNCHANGED << conversationHistory, stack, exit, runs, call, log, prev,
                    obtained, fibers >>

\* s = yield* state.getState()
GetState ==
    /\ stack = <<>>
    /\ Len(obtained) < MaxObtained
    /\ obtained' = Append(obtained,
            [from |-> "getState", value |-> getState(serviceExecutionState),
             seen |-> serviceExecutionState])
    /\ UNCHANGED << conversationHistory, stack, exit, runs, call, log, prev,
                    serviceExecutionState, writes, fibers >>

\* ===== Specification =====

\* the steps of running agents and what they dispatch; the workflows of the
\* agents have no grouped flow builder and no action that fails
AgentBody ==
    \/ HandleDecode
    \/ HandleExecute
    \/ ResolveAndThen
    \/ ResolveDoIf
    \/ ResolveDone
    \/ FirstHandle
    \/ FirstResult
    \/ AndThenSkip
    \/ AndThenHandle
    \/ AndThenResult
    \/ FlowReturn
    \/ WorkflowFlowWrap
    \/ WorkflowExecute
    \/ WorkflowMap
    \/ AgentStart
    \/ AgentLoop
    \/ AgentMaxLoops
    \/ AgentNoCapabilities
    \/ AgentDispatchAction
    \/ AgentDispatchWorkflow
    \/ AgentDispatchAgent
    \/ AgentDone
    \/ AgentContinue
    \/ AgentFail

\* the steps of running actions, flows, workflows and agents
Body ==
    \/ AgentBody
    \/ ResolvePipe
    \/ FlowFail
    \/ WorkflowFail

Steps ==
    \/ StartAgent
    \/ StartWorkflow
    \/ StartFlow
    \/ StartFlowGrouped
    \/ StartHandle
    \/ HarnessFlowWrap
    \/ HarnessExecute
    \/ HarnessResult
    \/ Body
    \/ AddMessage

\* the program as written: the selection is Math.random's
Next == Steps \/ AgentSelect

Spec == Init /\ [][Next]_vars

\* the program with the selection made by an injected decision provider
NextProvider == Steps \/ AgentSelectProvider \/ AgentDie

SpecProvider == Init /\ [][NextProvider]_vars

\* agents executed by a caller, with the Effect runtime running the fiber of
\* a call on: a step of the call that can be taken is taken
NextAgents == StartAgent \/ AgentBody \/ AgentSelect

SpecFair == Init /\ [][NextAgents]_vars /\ WF_vars(AgentBody \/ AgentSelect)

\* two concurrent runs of agents on one store, interleaved by the runtime
NextShared ==
    \/ ExecuteTwo
    \/ Switch
    \/ AgentStart
    \/ AgentLoop
    \/ AgentMaxLoops
    \/ AgentNoCapabilities
    \/ AgentSelect
    \/ AgentDispatchAction
    \/ HandleDecode
    \/ HandleExecute
    \/ AgentDone
    \/ AgentContinue
    \/ AgentFail

SpecShared == Init /\ [][NextShared]_vars

\* the store alone, used by a caller
NextStore ==
    \/ AddMessage
    \/ GetHistory
    \/ UpdateState
    \/ GetState

SpecStore == Init /\ [][NextStore]_vars

\* ===== Properties =====

Finished(op) == stack = <<>> /\ call.op = op
BudgetExhausted(maxLoops) ==
    Success(ActionReturn(TRUE, "Agent reached maximum loops (" \o ToString(maxLoops) \o ")"))
EmailSent == ActionReturn(TRUE, "Cancellation confirmation email sent")

\* C1: in a flow, once a layer's result is done=true, every andThen layer
\* after it invokes no handle and hands on that result unchanged (done,
\* result, nextState); the flow returns it, and no handle was invoked past
\* that layer, however many andThen steps follow.
C1_AndThenShortCircuit ==
    call.op \in {"flow", "workflow"} =>
        \A i \in 1..Len(log.layers) :
            log.layers[i].out.done =>
                /\ Len(log.calls) <= i
                /\ \A j \in (i + 1)..Len(log.layers) :
                    /\ ~log.layers[j].invoked
                    /\ log.layers[j].prevResult = log.layers[i].out
                    /\ log.layers[j].out = log.layers[i].out
                /\ Finished("flow") => exit = Success(log.layers[i].out)

C1_Witness ==
    /\ Finished("flow")
    /\ Len(log.layers) = 4
    /\ ~log.layers[1].out.done
    /\ log.layers[2].out.done
    /\ log.calls = << "AskCancellationReason", "EmailUserAboutCancellation" >>
    /\ exit = Success(FlowIntermediateResult(TRUE, EmailSent.result, "s1"))

\* C2: once a capability has produced a done=true result, the Exit handed
\* upward stays a success with done=true and that result string through
\* every enclosing flow, workflow and agent, and nothing further is invoked,
\* dispatched or iterated in that call.
C2_DoneNeverDowngraded ==
    log.produced # <<>> =>
        /\ Len(log.produced) = 1
        /\ exit.tag = "Success"
        /\ exit.value.done
        /\ exit.value.result = log.produced[1].result
        /\ Len(log.calls) = log.produced[1].calls
        /\ Len(log.dispatched) = log.produced[1].dispatched
        /\ log.loops = log.produced[1].loops

C2_Witness ==
    /\ Finished("agent")
    /\ call.subject = "parentAgent"
    /\ \E i \in 1..Len(log.dispatched) :
        log.dispatched[i].depth = 2 /\ log.dispatched[i].tag = "Workflow"
    /\ log.produced # <<>>
    /\ exit = Success(EmailSent)

\* the agents whose only capability is an action that takes no arguments and
\* always succeeds with done=false
NeverDoneAgents ==
    { g \in AgentNames :
        /\ Len(Capabilities(g)) = 1
        /\ Capabilities(g)[1].tag = "Action"
        /\ ActionParams(Capabilities(g)[1].value) = {}
        /\ ActionExecute(Capabilities(g)[1].value, <<>>).tag = "Success"
        /\ ~ActionExecute(Capabilities(g)[1].value, <<>>).value.done }

\* C3: an agent whose only capability is an action that always succeeds
\* with done=false, run with maxLoops = N >= 1, has run exactly N iterations
\* and invoked the action exactly N times when it returns, and returns the
\* budget-exhausted result as a success.
C3_BudgetExhaustedAfterNLoops ==
    (call.op = "agent" /\ call.subject \in NeverDoneAgents
        /\ maxLoopsOf(call.options) >= 1) =>
        LET N == maxLoopsOf(call.options) IN
        /\ log.loops <= N
        /\ Len(log.calls) <= N
        /\ exit.tag \in {"None", "Success"}
        /\ Finished("agent") =>
            /\ log.loops = N
            /\ log.calls = [i \in 1..N |-> Capabilities(call.subject)[1].value]
            /\ Len(log.bodies) = N
            /\ Len(log.dispatched) = N
            /\ exit = BudgetExhausted(N)

C3_Witness ==
    /\ Finished("agent")
    /\ call.subject = "loopAgent"
    /\ call.options = [given |-> TRUE, maxLoops |-> 2]
    /\ log.loops = 2
    /\ Len(log.bodies) = 2
    /\ exit = BudgetExhausted(2)

\* C4: with maxLoops = 0 an agent starts no iteration, makes no selection
\* and invokes nothing, whatever its capabilities, and returns the
\* budget-exhausted result as its next step after the start message.
C4_ZeroBudget ==
    (call.op = "agent" /\ call.options.given /\ call.options.maxLoops = 0) =>
        /\ log.loops = 0
        /\ log.selections = 0
        /\ log.dispatched = <<>>
        /\ log.calls = <<>>
        /\ log.bodies = <<>>
        /\ Len(stack) <= 1
        /\ Finished("agent") => exit = BudgetExhausted(0)

C4_Witness ==
    /\ Finished("agent")
    /\ call.subject = "parentAgent"
    /\ call.options = [given |-> TRUE, maxLoops |-> 0]
    /\ exit = BudgetExhausted(0)
    /\ Len(conversationHistory) >= 2
    /\ conversationHistory[Len(conversationHistory)] = "Agent reached max loops (0)"

\* the agents whose only capability is an action that takes no arguments and
\* always succeeds with done=true
AlwaysDoneAgents ==
    { g \in AgentNames :
        /\ Len(Capabilities(g)) = 1
        /\ Capabilities(g)[1].tag = "Action"
        /\ ActionParams(Capabilities(g)[1].value) = {}
        /\ ActionExecute(Capabilities(g)[1].value, <<>>).tag = "Success"
        /\ ActionExecute(Capabilities(g)[1].value, <<>>).value.done }

\* C5: an agent that gets a done=true result from the capability it
\* dispatched returns exactly that result as its next step, with no further
\* iteration, dispatch or handle; an agent whose single action returns
\* {done: true, result: r}, run with maxLoops >= 1, returns {done: true,
\* result: r} after exactly one iteration.
C5_DoneReturnedInSameIteration ==
    /\ [][ (Running("agent", "dispatched") /\ exit.tag = "Success" /\ exit.value.done) =>
            /\ stack' = Pop
            /\ exit' = exit
            /\ log' = log ]_vars
    /\ [] ( (Finished("agent") /\ call.subject \in AlwaysDoneAgents
                /\ maxLoopsOf(call.options) >= 1) =>
            /\ exit = ActionExecute(Capabilities(call.subject)[1].value, <<>>)
            /\ log.loops = 1
            /\ Len(log.dispatched) = 1
            /\ log.calls = << Capabilities(call.subject)[1].value >> )

C5_Witness ==
    /\ Finished("agent")
    /\ call.subject = "doneAgent"
    /\ call.options = [given |-> TRUE, maxLoops |-> 2]
    /\ exit = Success(EmailSent)
    /\ log.loops = 1

\* C6: once a capability dispatched by an agent has failed with a typed
\* error, the Exit handed upward stays that failure through every enclosing
\* agent, and nothing further is invoked, dispatched or iterated: no retry
\* and no success in its place.
C6_ErrorPropagates ==
    (call.op = "agent" /\ log.failures # <<>>) =>
        /\ Len(log.failures) = 1
        /\ exit = Failure(log.failures[1].error)
        /\ Len(log.calls) = log.failures[1].calls
        /\ Len(log.dispatched) = log.failures[1].dispatched
        /\ log.loops = log.failures[1].loops
        /\ log.produced = <<>>

C6_Witness ==
    /\ Finished("agent")
    /\ call.subject = "parentAgent"
    /\ call.options = [given |-> TRUE, maxLoops |-> 2]
    /\ log.loops = 3
    /\ \E i \in 1..Len(log.dispatched) :
        log.dispatched[i].depth = 2 /\ log.dispatched[i].value = "ChargeStub"
    /\ exit = Failure("PaymentError")

\* C7: handle runs the action's body only after its arguments passed the
\* parameter schema, and with the validated arguments; with a schema field
\* missing or not a string, handle fails with ParseError and the body is
\* never run.
C7_ValidatesBeforeExecute ==
    /\ Len(log.bodies) <= Len(log.calls)
    /\ \A i \in 1..Len(log.bodies) :
        DOMAIN log.bodies[i].request = ActionParams(log.bodies[i].action)
    /\ call.op \in {"flow", "workflow", "agent"} =>
        \A i \in 1..Len(log.bodies) : ActionParams(log.bodies[i].action) = {}
    /\ call.op = "handle" =>
        LET invalid == \E f \in ActionParams(call.subject) :
                            call.args[f].type # "string" IN
        /\ invalid => log.bodies = <<>>
        /\ (invalid /\ Finished("handle")) =>
            (exit = Failure("ParseError") /\ log.calls = << call.subject >>)
        /\ log.bodies # <<>> =>
            \A f \in ActionParams(call.subject) :
                log.bodies[1].request[f] = call.args[f].v

C7_Witness ==
    /\ Finished("handle")
    /\ call.subject = "Respond"
    /\ call.args = EmptyArgs
    /\ log.calls = << "Respond" >>
    /\ log.bodies = <<>>
    /\ exit = Failure("ParseError")

\* C8: once the selection of an iteration is an index outside [0, len) of
\* the candidate set, that iteration dispatches and invokes nothing, no
\* further iteration starts, and the agent and every agent around it end
\* with a defect: not a typed error and not a success.
C8_OutOfRangeIsDefect ==
    log.outOfRange # <<>> =>
        /\ Len(log.outOfRange) = 1
        /\ Len(log.dispatched) = log.outOfRange[1].dispatched
        /\ Len(log.calls) = log.outOfRange[1].calls
        /\ log.loops = log.outOfRange[1].loops
        /\ log.produced = <<>>
        /\ log.failures = <<>>
        /\ Running("agent", "selected") \/ exit.tag = "Die"
        /\ stack = <<>> => exit.tag = "Die"

C8_Witness ==
    /\ Finished("agent")
    /\ call.subject = "parentAgent"
    /\ log.outOfRange # <<>>
    /\ log.loops = 3
    /\ Len(log.dispatched) = 2
    /\ log.dispatched[2].tag = "Agent"
    /\ exit.tag = "Die"

\* C9: Workflow.execute runs its flow from the empty state, also when it is
\* executed again, and returns exactly {done, result} of the flow's last
\* result, without nextState; a second execution that takes the same
\* branches does and returns the same as the first; first(A).andThen(B)
\* with A done=true returns A's result and never calls B.
C9_WorkflowFromEmptyState ==
    /\ \A i \in 2..Len(stack) :
        (stack[i].kind = "flow" /\ stack[i - 1].kind = "workflow") =>
            /\ stack[i].executionState = EmptyState
            /\ stack[i].layer > 1 => stack[i].prevResult.nextState = EmptyState
    /\ (Finished("workflow") /\ exit.tag = "Success") =>
        /\ log.layers # <<>>
        /\ exit.value = [done |-> log.layers[Len(log.layers)].out.done,
                         result |-> log.layers[Len(log.layers)].out.result]
    /\ (Finished("workflow") /\ prev.call.op = "workflow"
            /\ log.decisions = prev.log.decisions) =>
        /\ exit = prev.exit
        /\ log.calls = prev.log.calls
        /\ log.layers = prev.log.layers
    /\ (Finished("workflow") /\ call.subject = "doneFirst") =>
        /\ exit = Success(EmailSent)
        /\ log.calls = << "EmailUserAboutCancellation" >>

C9_Witness ==
    /\ Finished("workflow")
    /\ runs = 2
    /\ call.subject = "cancelSubscriptionFlow"
    /\ log.decisions = << TRUE, TRUE, TRUE >>
    /\ prev.log.decisions = << FALSE, FALSE >>
    /\ prev.exit = Success(ActionReturn(FALSE, "Subscription details"))
    /\ exit = Success(EmailSent)
    /\ Len(log.calls) = 6

\* C10: a flow builder piped through doIf with noOp on both arms, executed
\* from the same state and with the same inner branch decisions, invokes the
\* same actions in the same order and gives the same result or error as the
\* flow builder itself, whichever way the added condition is decided.
C10_DoIfNoOpIsIdentity ==
    (Finished("flow") /\ prev.call.op = "flow"
        /\ call.subject = prev.call.subject /\ call.state = prev.call.state
        /\ call.wrapped # prev.call.wrapped) =>
        LET piped == IF call.wrapped THEN log ELSE prev.log
            plain == IF call.wrapped THEN prev.log ELSE log IN
        \A conditionMet \in BOOLEAN :
            piped.decisions = Append(plain.decisions, conditionMet) =>
                /\ piped.calls = plain.calls
                /\ piped.bodies = plain.bodies
                /\ piped.layers = plain.layers
                /\ exit = prev.exit

C10_Witness ==
    /\ Finished("flow")
    /\ call.subject = "cancelSubscriptionFlow"
    /\ call.wrapped
    /\ ~prev.call.wrapped
    /\ call.state = prev.call.state
    /\ prev.log.decisions = << TRUE, FALSE, FALSE >>
    /\ log.decisions = << TRUE, FALSE, FALSE, TRUE >>
    /\ Len(log.calls) = 3
    /\ exit.tag = "Success"

\* the frame that runs a capability: handle of an action, execute of a
\* workflow, execute of an agent
InvokedBy(capability, frame) ==
    \/ capability.tag = "Action" /\ frame.kind = "action"
            /\ frame.action = capability.value
    \/ capability.tag = "Workflow" /\ frame.kind = "workflow"
            /\ frame.workflow = capability.value
    \/ capability.tag = "Agent" /\ frame.kind = "agent"
            /\ frame.agent = capability.value

\* C11: an agent loop iteration that reaches the dispatch step invokes exactly
\* one capability, the one its tag names: the step from a selection starts
\* one handle, workflow execute or agent execute of the selected capability
\* and nothing else; every selection is followed by such a step; and an agent
\* has no second capability started while one is running.
C11_OneCapabilityPerIteration ==
    /\ [][Running("agent", "selected") =>
            /\ Len(stack') = Len(stack) + 1
            /\ stack'[Len(stack)] = [Top EXCEPT !.pc = "dispatched"]
            /\ SubSeq(stack', 1, Len(stack) - 1) = Pop
            /\ InvokedBy(SelectedCapability, stack'[Len(stack')])
            /\ stack'[Len(stack')].pc \in {"decode", "flow", "start"}
            /\ log'.dispatched = Append(log.dispatched,
                                        DispatchEntry(Top, SelectedCapability))]_vars
    /\ [][log'.dispatched # log.dispatched =>
            Running("agent", "selected") \/ log'.dispatched = <<>>]_vars
    /\ [](/\ log.selections = Len(log.dispatched)
                + (IF Running("agent", "selected") THEN 1 ELSE 0)
          /\ log.selections <= log.loops
          /\ \A i \in 1..Len(stack) :
                stack[i].kind = "agent" =>
                    (i = Len(stack) \/ stack[i].pc = "dispatched"))

C11_Witness ==
    /\ Finished("agent")
    /\ call.subject = "parentAgent"
    /\ exit.tag = "Success"
    /\ log.selections = Len(log.dispatched)
    /\ \E i, j, k \in 1..Len(log.dispatched) :
        /\ log.dispatched[i].tag = "Action"
        /\ log.dispatched[j].tag = "Workflow"
        /\ log.dispatched[k].tag = "Agent"

\* C12: an agent run as the capability of another agent always runs with a
\* loop budget of exactly 5, whatever budget its parent was called with and
\* however many iterations the parent has used.
C12_SubAgentBudgetIsFive ==
    \A i \in 2..Len(stack) :
        stack[i].kind = "agent" =>
            /\ stack[i].maxLoops = 5
            /\ stack[i].loopCount <= 5

\* the parent was called with a budget of 2 and is in its last iteration; the
\* sub-agent is in an iteration beyond the parent's whole budget
C12_Witness ==
    /\ Len(stack) >= 2
    /\ stack[1].kind = "agent" /\ stack[1].maxLoops = 2 /\ stack[1].loopCount = 1
    /\ stack[2].kind = "agent" /\ stack[2].maxLoops = 5 /\ stack[2].loopCount = 3
    /\ call.options = [given |-> TRUE, maxLoops |-> 2]

NoCapabilitiesAvailable == Success(ActionReturn(TRUE, "No capabilities available"))

\* C13: an agent with no actions, workflows or sub-agents, executed with a
\* budget of at least 1, returns {done: true, result: "No capabilities
\* available"} in its first iteration: the first thing it does after starting
\* that iteration is to return this success; no selection is made, nothing is
\* invoked, and the outcome is not an error.
C13_NoCapabilities ==
    /\ [][(Running("agent", "capabilities") /\ Capabilities(Top.agent) = <<>>) =>
            /\ Top.loopCount = 0
            /\ stack' = Pop
            /\ exit' = NoCapabilitiesAvailable
            /\ log'.selections = log.selections
            /\ log'.dispatched = log.dispatched
            /\ log'.calls = log.calls
            /\ conversationHistory' = conversationHistory]_vars
    /\ []((Finished("agent") /\ Capabilities(call.subject) = <<>>
                /\ maxLoopsOf(call.options) >= 1) =>
            /\ exit = NoCapabilitiesAvailable
            /\ log.loops = 1
            /\ log.selections = 0
            /\ log.dispatched = <<>>
            /\ log.calls = <<>>
            /\ log.failures = <<>>)

C13_Witness ==
    /\ Finished("agent")
    /\ call.subject = "emptyAgent"
    /\ call.options = [given |-> TRUE, maxLoops |-> 2]
    /\ exit = NoCapabilitiesAvailable
    /\ log.loops = 1
    /\ conversationHistory[Len(conversationHistory)] = "Agent loop 1/2"

IsPrefix(s, t) == Len(s) <= Len(t) /\ SubSeq(t, 1, Len(s)) = s

\* C14: the conversation history of a store is append-only: whatever step is
\* taken (an addMessage by the caller, any step of an action, flow, workflow
\* or agent), every message already there stays at its position and a step
\* adds at most one message, at the end; nothing removes, rewrites or
\* reorders messages.
C14_HistoryAppendOnly ==
    [][/\ IsPrefix(conversationHistory, conversationHistory')
       /\ Len(conversationHistory') <= Len(conversationHistory) + 1]_vars

C14_Witness ==
    /\ stack = <<>>
    /\ runs = 2
    /\ call.subject = "doneAgent"
    /\ Len(conversationHistory) = 5
    /\ conversationHistory[1] = "Framework initialized successfully!"
    /\ conversationHistory[2] = "Starting agent: Done Agent"
    /\ conversationHistory[5] = "Completed with result: Cancellation confirmation email sent"

\* C15: getHistory returns a snapshot, not a live view: the sequence a caller
\* obtained from getHistory has the contents (and so the length) it had when
\* it was obtained, whatever addMessage calls were made since.
C15_GetHistoryIsSnapshot ==
    \A i \in 1..Len(obtained) :
        obtained[i].from = "getHistory" =>
            Contents(obtained[i].value) = obtained[i].seen

\* C16: updateState(partial) is a shallow merge in which the later write wins:
\* right after it, the state maps every key of partial to partial's value and
\* every other key to the value it had; no key is ever removed. So at any
\* time, and in any object getState handed out, a key is present exactly if
\* some updateState wrote it, with the value of the last one that did.
C16_UpdateStateShallowMerge ==
    /\ [][writes' # writes =>
            LET partial == writes'[Len(writes')] IN
            /\ writes' = Append(writes, partial)
            /\ DOMAIN serviceExecutionState' =
                    DOMAIN serviceExecutionState \cup DOMAIN partial
            /\ \A key \in DOMAIN partial :
                    serviceExecutionState'[key] = partial[key]
            /\ \A key \in DOMAIN serviceExecutionState \ DOMAIN partial :
                    serviceExecutionState'[key] = serviceExecutionState[key]]_vars
    /\ [][DOMAIN serviceExecutionState \subseteq DOMAIN serviceExecutionState']_vars
    /\ [](/\ DOMAIN serviceExecutionState =
                {key \in StateKeys : \E i \in 1..Len(writes) : key \in DOMAIN writes[i]}
          /\ \A key \in DOMAIN serviceExecutionState :
                \E i \in 1..Len(writes) :
                    /\ key \in DOMAIN writes[i]
                    /\ \A j \in (i + 1)..Len(writes) : key \notin DOMAIN writes[j]
                    /\ serviceExecutionState[key] = writes[i][key]
          /\ \A i \in 1..Len(obtained) :
                obtained[i].from = "getState" =>
                    Contents(obtained[i].value) = obtained[i].seen)

C16_Witness ==
    /\ Len(writes) = 2
    /\ DOMAIN writes[1] = {"plan", "step"}
    /\ writes[1]["plan"] = "v1" /\ writes[1]["step"] = "v1"
    /\ DOMAIN writes[2] = {"plan"}
    /\ writes[2]["plan"] = "v2"
    /\ Len(obtained) = 2
    /\ obtained[1].from = "getState" /\ DOMAIN obtained[1].seen = {"plan", "step"}
    /\ obtained[1].seen["plan"] = "v1"
    /\ obtained[2].from = "getState"
    /\ obtained[2].seen["plan"] = "v2" /\ obtained[2].seen["step"] = "v1"

C18_AndThenAssociative ==
    (Finished("flow") /\ prev.call.op = "flow"
        /\ call.subject = prev.call.subject /\ call.state = prev.call.state
        /\ ~call.wrapped /\ ~prev.call.wrapped
        /\ call.grouped # prev.call.grouped
        /\ log.decisions = prev.log.decisions) =>
            /\ log.calls = prev.log.calls
            /\ log.bodies = prev.log.bodies
            /\ log.layers = prev.log.layers
            /\ exit = prev.exit

\* not done, done, not done: the third action is skipped in both groupings
C18_Witness ==
    /\ Finished("flow")
    /\ call.subject = "seqNDN"
    /\ call.grouped
    /\ prev.call.op = "flow" /\ ~prev.call.grouped /\ ~prev.call.wrapped
    /\ call.state = prev.call.state
    /\ log.calls = << "AskCancellationReason", "EmailUserAboutCancellation" >>
    /\ prev.log.calls = log.calls
    /\ exit = Success(FlowIntermediateResult(TRUE,
                "Cancellation confirmation email sent", call.state))

\* C20: the state threaded through a flow is passed through untouched: for a
\* flow built from first, andThen, doIf and noOp and every input state s, a
\* successful execute(s) returns nextState = s, and so does every layer of it
\* on the way, whether its step ran or was skipped.
C20_FlowStateUntouched ==
    /\ (Finished("flow") /\ exit.tag = "Success") =>
            /\ exit.value.nextState = call.state
            /\ \A i \in 1..Len(log.layers) :
                    log.layers[i].out.nextState = call.state
    /\ \A i \in 1..Len(stack) :
            (stack[i].kind = "flow" /\ stack[i].layer > 1) =>
                stack[i].prevResult.nextState = stack[i].executionState

C20_Witness ==
    /\ Finished("flow")
    /\ call.subject = "cancelSubscriptionFlow"
    /\ call.state = "s1"
    /\ log.decisions = << FALSE, TRUE >>
    /\ Len(log.layers) = 4
    /\ exit = Success(FlowIntermediateResult(TRUE,
                "Cancellation confirmation email sent", "s1"))

\* C19: the state store does not persist across runs: while a top-level
\* Agent.execute runs, nothing an earlier top-level call recorded is in the
\* history; whatever was there when the call was made, the caller put there
\* itself.
C19_StoreNotPersisted ==
    (stack # <<>> /\ call.op = "agent") =>
        \A i \in 1..log.from : conversationHistory[i] \in ExternalMessages

\* C21: when an action inside a flow fails, with ParseError or with its own
\* typed error, Flow.execute fails with that same error, no action of the flow
\* is invoked after the failing one, and Workflow.execute hands up the same
\* error, not a success ActionReturn.
C21_FlowErrorSurfaces ==
    (call.op \in {"flow", "workflow"} /\ log.failures # <<>>) =>
        /\ Len(log.failures) = 1
        /\ exit = Failure(log.failures[1].error)
        /\ Len(log.calls) = log.failures[1].calls
        /\ Len(log.bodies) <= Len(log.calls)
        /\ Len(log.layers) = Len(log.calls) - 1
        /\ \A i \in 1..Len(stack) : stack[i].kind # "action"

\* the second of three actions fails to decode {}; the third is not invoked
C21_Witness ==
    /\ Finished("workflow")
    /\ call.subject = "needsArgsLater"
    /\ exit = Failure("ParseError")
    /\ log.calls = << "AskCancellationReason", "SearchLogs" >>
    /\ Len(log.bodies) = 1

LoopMessage(loop, maxLoops) ==
    "Agent loop " \o ToString(loop) \o "/" \o ToString(maxLoops)
DispatchMessage(entry) ==
    CASE entry.tag = "Action" -> "Executing action: " \o entry.value
      [] entry.tag = "Workflow" -> "Executing workflow: " \o WorkflowName(entry.value)
      [] entry.tag = "Agent" ->
            "Delegating to sub-agent: " \o AgentDef(entry.value).name
\* the results an agent can complete with
DoneResults ==
    {EmailSent.result, "No capabilities available"}
        \cup {"Agent reached maximum loops (" \o ToString(n) \o ")" :
                n \in 0..DefaultMaxLoops}
CompletionMessages == {"Completed with result: " \o result : result \in DoneResults}

\* C22: within one Agent.execute the trace messages follow the step order.
\* The trace message of every dispatch is in the history right after the
\* loop-start message of its iteration, and it is there when the capability's
\* frame is started; the iterations of one agent run are numbered 1, 2, ...
\* without a gap, the first one right after the agent's start message; a
\* completion message is recorded only on a capability's done=true result, in
\* the step in which execute returns it.
C22_TraceFollowsSteps ==
    /\ [](call.op = "agent" =>
            \A j \in 1..Len(log.dispatched) :
                LET e == log.dispatched[j] IN
                /\ e.message \in (log.from + 3)..Len(conversationHistory)
                /\ conversationHistory[e.message] = DispatchMessage(e)
                /\ conversationHistory[e.message - 1] = LoopMessage(e.loop, e.maxLoops)
                /\ e.loop = 1 =>
                    /\ conversationHistory[e.message - 2] =
                            "Starting agent: " \o AgentDef(e.agent).name
                    /\ IF e.depth = 1 THEN j = 1 /\ e.message = log.from + 3
                       ELSE /\ j > 1
                            /\ log.dispatched[j - 1].depth = e.depth - 1
                            /\ log.dispatched[j - 1].tag = "Agent"
                            /\ log.dispatched[j - 1].value = e.agent
                            /\ log.dispatched[j - 1].message = e.message - 3
                /\ e.loop > 1 =>
                    \E i \in 1..(j - 1) :
                        /\ log.dispatched[i].depth = e.depth
                        /\ log.dispatched[i].agent = e.agent
                        /\ log.dispatched[i].loop = e.loop - 1
                        /\ log.dispatched[i].message < e.message - 1
                        /\ \A k \in (i + 1)..(j - 1) :
                                log.dispatched[k].depth > e.depth)
    /\ [][(Running("agent", "dispatched") /\ Len(stack') < Len(stack)
                /\ exit'.tag = "Success") =>
            /\ exit.tag = "Success" /\ exit.value.done /\ exit' = exit
            /\ conversationHistory' = Append(conversationHistory,
                    "Completed with result: " \o exit.value.result)]_vars
    /\ [][(conversationHistory' # conversationHistory
                /\ conversationHistory'[Len(conversationHistory')]
                        \in CompletionMessages) =>
            /\ Running("agent", "dispatched")
            /\ exit.tag = "Success" /\ exit.value.done
            /\ stack' = Pop]_vars

C22_Witness ==
    /\ Finished("agent")
    /\ call.subject = "parentAgent"
    /\ log.from = 0
    /\ conversationHistory =
        << "Starting agent: Parent Agent", "Agent loop 1/2",
           "Executing action: AskCancellationReason", "Agent loop 2/2",
           "Delegating to sub-agent: Child Agent", "Starting agent: Child Agent",
           "Agent loop 1/5", "Executing workflow: doneMiddle",
           "Completed with result: Cancellation confirmation email sent",
           "Completed with result: Cancellation confirmation email sent" >>

SubAgentsOf(g) == {AgentDef(g).agents[i] : i \in 1..Len(AgentDef(g).agents)}
RECURSIVE ReachIn(_, _)
ReachIn(agents, n) ==
    IF n = 0 THEN agents
    ELSE ReachIn(agents \cup UNION {SubAgentsOf(h) : h \in agents}, n - 1)
Descendants(g) == ReachIn(SubAgentsOf(g), Cardinality(AgentNames))
Acyclic(g) == \A h \in {g} \cup Descendants(g) : h \notin Descendants(h)
OwnDispatches ==
    Cardinality({j \in 1..Len(log.dispatched) : log.dispatched[j].depth = 1})
Terminal == stack = <<>> /\ exit.tag \in {"Success", "Failure", "Die"}

\* C23: an Agent.execute call on an acyclic agent graph, whose actions all
\* terminate, always comes to a terminal outcome (a returned ActionReturn or
\* a propagated error or defect), whatever is selected and decided; and at
\* any time the agent called has itself dispatched at most maxLoops
\* capabilities, 10 when maxLoops was not given.
C23_AcyclicAgentTerminates ==
    /\ (call.op = "agent" /\ Acyclic(call.subject) /\ stack # <<>>) ~> Terminal
    /\ [](call.op = "agent" => OwnDispatches <= maxLoopsOf(call.options))

C23_Witness ==
    /\ Finished("agent")
    /\ call.subject = "loopAgent"
    /\ ~call.options.given
    /\ OwnDispatches = 10
    /\ exit = BudgetExhausted(10)


\* C24: the loop budget bounds recursion, also for agents that reference each
\* other cyclically: the nesting of Agent.execute calls inside one top-level
\* run stays bounded.  Every sub-agent call starts in the same state (budget
\* 5, loop count 0, lines 257-258 and 338), so the nesting is bounded exactly
\* when no sub-agent call of an agent is nested inside a sub-agent call of the
\* same agent that has dispatched nothing else before: such a call repeats
\* the call that encloses it.
SubAgentCalls ==
    { i \in 2..Len(stack) : stack[i].kind = "agent" /\ stack[i - 1].kind = "agent" }
C24_RecursionBounded ==
    \A i, j \in SubAgentCalls :
        (i < j /\ stack[i].agent = stack[j].agent) =>
            \E k \in i..(j - 1) : stack[k].kind = "agent" /\ stack[k].loopCount > 0


\* C25: every successful return of Agent.execute has done = true, the one of
\* a sub-agent included; so a parent whose sub-agent has returned ends its
\* own loop in that iteration and returns the sub-agent's result as it is,
\* also when it says the sub-agent ran out of its 5 loops or had no
\* capabilities.
SubAgentReturned ==
    /\ stack # <<>>
    /\ Top.kind = "agent"
    /\ Top.pc = "dispatched"
    /\ SelectedCapability.tag = "Agent"
    /\ exit.tag = "Success"
C25_AgentSuccessIsDone ==
    /\ [](/\ (Finished("agent") /\ exit.tag = "Success") => exit.value.done
          /\ SubAgentReturned =>
                /\ exit.value.done
                /\ ENABLED AgentDone
                /\ ~ENABLED AgentContinue)
    /\ [][SubAgentReturned =>
            /\ stack' = Pop
            /\ exit' = exit
            /\ conversationHistory' = addMessage(conversationHistory,
                    "Completed with result: " \o exit.value.result)]_vars
C25_Witness ==
    /\ Finished("agent")
    /\ call.subject = "parentAgent"
    /\ call.options = [given |-> TRUE, maxLoops |-> 2]
    /\ exit = BudgetExhausted(SubAgentMaxLoops)
    /\ Len(log.dispatched) = 6
    /\ log.dispatched[1].tag = "Agent"
    /\ log.dispatched[1].value = "loopAgent"
    /\ log.dispatched[1].loop = 1
    /\ \A i \in 2..6 : log.dispatched[i].agent = "loopAgent"


\* C26: all doIf decisions of a flow are taken while its flow builder is
\* resolved, before any action of the flow is executed: a decision is a step
\* of a flow builder being resolved, with no Flow.execute and no Action.handle
\* under way, and in a Workflow.execute or Flow.execute called from outside no
\* action has been invoked yet.  The decisions taken are those of the doIf
\* steps on the path chosen: a doIf inside an arm that was not chosen takes
\* none.
CalledBuilder ==
    IF call.op = "workflow" THEN WorkflowFlow(call.subject)
    ELSE IF call.grouped THEN GroupRight(FlowDef(call.subject))
    ELSE FlowBuilder(call.subject, call.wrapped)
RECURSIVE DoIfsOnPath(_, _)
DoIfsOnPath(steps, decisions) ==
    IF steps = <<>> THEN 0
    ELSE IF Head(steps).op = "doIf"
    THEN IF decisions = <<>> THEN 1
         ELSE 1 + DoIfsOnPath((IF Head(decisions) THEN Head(steps).onTrue
                                                  ELSE Head(steps).onFalse)
                                    \o Tail(steps),
                              Tail(decisions))
    ELSE IF Head(steps).op = "pipe"
    THEN DoIfsOnPath(Head(steps).onTrue \o Tail(steps), decisions)
    ELSE DoIfsOnPath(Tail(steps), decisions)
FlowResolved ==
    /\ call.op \in {"workflow", "flow"}
    /\ stack = <<>> \/ \E i \in 1..Len(stack) : stack[i].kind = "flow"
C26_DecisionsBeforeActions ==
    /\ [][Len(log'.decisions) > Len(log.decisions) =>
            /\ Top.kind = "flowWrap"
            /\ \A i \in 1..Len(stack) : stack[i].kind \notin {"flow", "action"}
            /\ call.op \in {"workflow", "flow"} => log.calls = <<>>]_vars
    /\ [](FlowResolved =>
            Len(log.decisions) = DoIfsOnPath(CalledBuilder.steps, log.decisions))
C26_Witness ==
    /\ Finished("workflow")
    /\ call.subject = "cancelSubscriptionFlow"
    /\ log.decisions = << FALSE, TRUE >>
    /\ log.calls = << "AskCancellationReason", "GetSubscriptionDetails",
                      "CancelSubscription", "EmailUserAboutCancellation" >>


\* C27: agents and flows call handle with the empty object only.  So once an
\* agent's run invokes an action with a required field (Respond, SearchLogs,
\* GetPayments), the run fails with ParseError in that iteration: the
\* action's body is not run, nothing is invoked, dispatched or looped after
\* it, and no result is produced.  An agent whose capabilities are all such
\* actions (supportAgent) never returns a success when maxLoops >= 1.
NeedsArgs(a) == ActionParams(a) # {}
NeedsArgsOnly(g) ==
    /\ Len(Capabilities(g)) > 0
    /\ \A i \in 1..Len(Capabilities(g)) :
        /\ Capabilities(g)[i].tag = "Action"
        /\ NeedsArgs(Capabilities(g)[i].value)
C27_EmptyArgsFailDecoding ==
    /\ \A i \in 2..Len(stack) : stack[i].kind = "action" => stack[i].args = EmptyArgs
    /\ call.op = "agent" =>
        /\ \A i \in 1..Len(log.bodies) : ~NeedsArgs(log.bodies[i].action)
        /\ \A i \in 1..Len(log.calls) : NeedsArgs(log.calls[i]) =>
            /\ i = Len(log.calls)
            /\ exit = Failure("ParseError")
            /\ log.failures = << [error |-> "ParseError", calls |-> i,
                                  dispatched |-> Len(log.dispatched),
                                  loops |-> log.loops] >>
            /\ log.produced = <<>>
            /\ \A k \in 1..Len(stack) :
                stack[k].kind \in {"agent", "workflow", "flow"}
    /\ (Finished("agent") /\ NeedsArgsOnly(call.subject)
            /\ maxLoopsOf(call.options) >= 1) => exit = Failure("ParseError")
C27_Witness ==
    /\ Finished("agent")
    /\ call.subject = "supportAgent"
    /\ ~call.options.given
    /\ exit = Failure("ParseError")
    /\ log.calls = << "Respond" >>
    /\ log.bodies = <<>>
    /\ log.loops = 1


\* C28: two Agent.execute runs on one AgentStateService, interleaved between
\* their steps: the history holds the messages of both runs, none lost and
\* none twice, those of each run in the order the run added them (the
\* history is a merge of the two runs' traces).
RunTrace(run) ==
    LET g == run.call.subject
        maxLoops == maxLoopsOf(run.call.options)
        started == run.stack = <<>> \/ run.stack[1].pc # "start"
        iteration(k) ==
            << LoopMessage(k, maxLoops) >>
            \o (IF k <= Len(run.log.dispatched)
                THEN << DispatchMessage(run.log.dispatched[k]) >> ELSE <<>>)
        RECURSIVE iterations(_)
        iterations(k) == IF k = 0 THEN <<>> ELSE iterations(k - 1) \o iteration(k)
        last ==
            IF run.stack # <<>> \/ run.exit.tag # "Success" THEN <<>>
            ELSE IF run.exit = BudgetExhausted(maxLoops)
            THEN << "Agent reached max loops (" \o ToString(maxLoops) \o ")" >>
            ELSE IF run.exit = NoCapabilitiesAvailable THEN <<>>
            ELSE << "Completed with result: " \o run.exit.value.result >>
    IN  IF started
        THEN << "Starting agent: " \o AgentDef(g).name >> \o iterations(run.log.loops) \o last
        ELSE <<>>
RECURSIVE IsMerge(_, _, _)
IsMerge(h, a, b) ==
    IF h = <<>> THEN a = <<>> /\ b = <<>>
    ELSE \/ a # <<>> /\ Head(a) = Head(h) /\ IsMerge(Tail(h), Tail(a), b)
         \/ b # <<>> /\ Head(b) = Head(h) /\ IsMerge(Tail(h), a, Tail(b))
Running2 == [stack |-> stack, exit |-> exit, call |-> call, log |-> log]
C28_HistoryIsMerge ==
    suspended # NoRun =>
        IsMerge(conversationHistory, RunTrace(Running2), RunTrace(suspended))
C28_Witness ==
    /\ suspended # NoRun
    /\ stack = <<>>
    /\ suspended.stack = <<>>
    /\ call.subject = "loopAgent"
    /\ suspended.call.subject = "doneAgent"
    /\ exit = BudgetExhausted(2)
    /\ suspended.exit = Success(EmailSent)
    /\ conversationHistory =
        << "Starting agent: Loop Agent",
           "Agent loop 1/2",
           "Starting agent: Done Agent",
           "Agent loop 1/1",
           "Executing action: EmailUserAboutCancellation",
           "Completed with result: Cancellation confirmation email sent",
           "Executing action: AskCancellationReason",
           "Agent loop 2/2",
           "Executing action: AskCancellationReason",
           "Agent reached max loops (2)" >>

====
